---- MODULE Spec2Model ----
(***************************************************************************)
(* Model of the Nistica WSS user space driver (nistica_wss_library.c).     *)
(*                                                                         *)
(* Every accessor of the library has the same shape: it builds the command *)
(* frame packet_to_transmit, takes its length with strlen, hands it to     *)
(* transmit_packet_via_uart_port, reads one response with                  *)
(* receive_packet_via_uart_port into a zero-initialised buffer, validates  *)
(* MID, RES (and LEN for some registers) and extracts the data.            *)
(*                                                                         *)
(* Bytes are the integers 0..255.  The two UART functions are external:    *)
(* their status and the bytes they deliver are inputs of the model.        *)
(***************************************************************************)
EXTENDS Integers, Sequences, FiniteSets, TLC

VARIABLES
    pc,                             \* "idle" | "transmitted" | "returned"
    fn,                             \* the accessor being (or last) executed
    args,                           \* its arguments
    packet_to_transmit,             \* the command frame it built
    length_of_packet_to_transmit,   \* strlen(packet_to_transmit)
    uart_received_packet_return,    \* bytes stored by the receive (rest of the buffer is 0)
    length_of_received_packet_return, \* the number of bytes the receive reports
    transmit_packet,                \* status returned by transmit_packet_via_uart_port
    receive_packet,                 \* status returned by receive_packet_via_uart_port
    ret,                            \* value returned by the accessor
    out,                            \* the caller's output argument
    ntx,                            \* transmits done by the current call
    nrx,                            \* receives done by the current call
    stdout,                         \* what the current call has printed
    line_tx,                        \* requests put on the port, not yet answered by the module
    line_rx,                        \* responses of the module waiting on the port
    answered,                       \* the accessor whose request the received response answers
    th,                             \* the call each thread is in
    rxbuf,                          \* the memory of each receive buffer
    port_rx                         \* the responses that wait on each UART port

vars == << pc, fn, args, packet_to_transmit, length_of_packet_to_transmit,
           uart_received_packet_return, length_of_received_packet_return,
           transmit_packet, receive_packet,
           ret, out, ntx, nrx, stdout, line_tx, line_rx, answered, th, rxbuf, port_rx >>

callVars == << pc, fn, args, packet_to_transmit, length_of_packet_to_transmit,
               uart_received_packet_return, length_of_received_packet_return,
               transmit_packet, receive_packet,
               ret, out, ntx, nrx, stdout >>

lineVars == << line_tx, line_rx, answered >>

threadVars == << th, rxbuf, port_rx >>

-----------------------------------------------------------------------------
(* nistica_wss_library.h *)

READ_CMD == 2

WRITE_CMD == 1

ARRAY_WRITE == 16

SUCCESS == 0

\* FAILURE is used by every accessor but defined nowhere in the repository;
\* the @return documentation of every accessor gives -1.
FAILURE == -1

-----------------------------------------------------------------------------
(* Bit operations on bytes *)

RECURSIVE BitXor(_, _)
BitXor(a, b) ==
    IF a = 0 THEN b
    ELSE IF b = 0 THEN a
    ELSE ((a + b) % 2) + 2 * BitXor(a \div 2, b \div 2)

RECURSIVE BitOr(_, _)
BitOr(a, b) ==
    IF a = 0 THEN b
    ELSE IF b = 0 THEN a
    ELSE (IF a % 2 = 1 \/ b % 2 = 1 THEN 1 ELSE 0) + 2 * BitOr(a \div 2, b \div 2)

\* XOR of the bytes s[lo] .. s[hi] (1-based, inclusive)
RECURSIVE XorFold(_, _, _)
XorFold(s, lo, hi) ==
    IF lo > hi THEN 0 ELSE BitXor(s[lo], XorFold(s, lo + 1, hi))

-----------------------------------------------------------------------------
(* The literal command frames, byte for byte as in the source *)

\* mutant: the checksum byte left at its initial 0
pkt_get_vendor_name_sum_unset ==
    << \Hdd, \H01, \H01, \H05, READ_CMD, \H06, \H01, \H00, \H00, \Hdd, \H02 >>

pkt_get_vendor_name ==
    << \Hdd, \H01, \H01, \H05, READ_CMD, \H06, \H01, \H00, \H01, \Hdd, \H02 >>

\* mutant: the parameter takes two bytes
pkt_get_minimum_frequency_bound_wide_par ==
    << \Hdd, \H01, \H19, \H06, READ_CMD, \H80, \H04, \H00, \H00, \H9a, \Hdd, \H02 >>

pkt_get_minimum_frequency_bound ==
    << \Hdd, \H01, \H19, \H05, READ_CMD, \H80, \H04, \H00, \H9a, \Hdd, \H02 >>

pkt_get_maximum_frequency_bound ==
    << \Hdd, \H01, \H19, \H05, READ_CMD, \H80, \H05, \H00, \H9b, \Hdd, \H02 >>

pkt_get_minimum_channel_bandwidth ==
    << \Hdd, \H01, \H19, \H05, READ_CMD, \H80, \H06, \H00, \H9c, \Hdd, \H02 >>

pkt_get_maximum_wss_id_value ==
    << \Hdd, \H01, \H19, \H05, READ_CMD, \H80, \H0f, \H00, \H91, \Hdd, \H02 >>

pkt_get_maximum_ocm_id_value ==
    << \Hdd, \H01, \H19, \H05, READ_CMD, \H80, \H10, \H00, \H8e, \Hdd, \H02 >>

pkt_get_maximum_waveplan_id_value ==
    << \Hdd, \H01, \H19, \H05, READ_CMD, \H80, \H12, \H00, \H8e, \Hdd, \H02 >>

pkt_get_module_supports_multi_commands ==
    << \Hdd, \H01, \H10, \H05, READ_CMD, \H80, \H02, \H00, \H95, \Hdd, \H02 >>

pkt_get_module_supports_table_and_row_commands ==
    << \Hdd, \H01, \H11, \H05, READ_CMD, \H80, \H0e, \H00, \H98, \Hdd, \H02 >>

pkt_get_module_supports_long_cmd_format ==
    << \Hdd, \H01, \H12, \H05, READ_CMD, \H80, \H11, \H00, \H84, \Hdd, \H02 >>

pkt_get_module_supports_broadcast ==
    << \Hdd, \H01, \H13, \H05, READ_CMD, \H80, \H0a, \H00, \H9e, \Hdd, \H02 >>

pkt_get_power_on_self_test_results ==
    << \Hdd, \H01, \H01, \H05, READ_CMD, \H03, \H01, \H00, \H04, \Hdd, \H02 >>

pkt_get_module_status ==
    << \Hdd, \H01, \H02, \H05, READ_CMD, \H04, \H01, \H00, \H00, \Hdd, \H02 >>

pkt_get_boot_mode ==
    << \Hdd, \H01, \H03, \H05, READ_CMD, \H91, \H01, \H00, \H94, \Hdd, \H02 >>

pkt_set_cold_boot_mode ==
    << \Hdd, \H01, \H03, \H05, WRITE_CMD, \H91, \H01, \H00, \H00, \H01, \H97, \Hdd, \H02 >>

pkt_set_warm_boot_mode ==
    << \Hdd, \H01, \H03, \H05, WRITE_CMD, \H91, \H01, \H00, \H00, \H02, \H94, \Hdd, \H02 >>

pkt_set_watchdog_reset_boot_mode ==
    << \Hdd, \H01, \H03, \H05, WRITE_CMD, \H91, \H01, \H00, \H00, \H04, \H92, \Hdd, \H02 >>

pkt_set_hot_boot_mode ==
    << \Hdd, \H01, \H03, \H05, WRITE_CMD, \H91, \H01, \H00, \H00, \H08, \H9e, \Hdd, \H02 >>

pkt_get_active_partition_number ==
    << \Hdd, \H01, \H01, \H05, READ_CMD, \H0b, \H01, \H00, \H0f, \Hdd, \H02 >>

pkt_get_booted_partition_number ==
    << \Hdd, \H01, \H01, \H05, READ_CMD, \H0b, \H01, \H00, \H0f, \Hdd, \H02 >>

pkt_get_partition_1_firmware_version ==
    << \Hdd, \H01, \H01, \H05, READ_CMD, \H0b, \H01, \H00, \H0f, \Hdd, \H02 >>

pkt_get_partition_2_firmware_version ==
    << \Hdd, \H01, \H01, \H05, READ_CMD, \H0b, \H01, \H00, \H0f, \Hdd, \H02 >>

pkt_get_bootloader_version ==
    << \Hdd, \H01, \H01, \H05, READ_CMD, \H0b, \H01, \H00, \H0f, \Hdd, \H02 >>

pkt_get_module_uptime_low_word ==
    << \Hdd, \H01, \H01, \H05, READ_CMD, \H92, \H01, \H00, \H96, \Hdd, \H02 >>

pkt_get_module_uptime_high_word ==
    << \Hdd, \H01, \H01, \H05, READ_CMD, \H92, \H02, \H00, \H95, \Hdd, \H02 >>

pkt_get_module_supports_array_commands ==
    << \Hdd, \H01, \H01, \H05, READ_CMD, \H78, \H01, \H00, \H7c, \Hdd, \H02 >>

-----------------------------------------------------------------------------
(* The accessors *)

\* the accessors that send a single-read frame
GetAccessors ==
    { "get_vendor_name_of_nistica_wss_module",
      "get_minimum_frequency_bound_of_nistica_wss_module",
      "get_maximum_frequency_bound_of_nistica_wss_module",
      "get_minimum_channel_bandwidth_of_nistica_wss_module",
      "get_maximum_wss_id_value_of_nistica_wss_module",
      "get_maximum_ocm_id_value_of_nistica_wss_module",
      "get_maximum_waveplan_id_value_of_nistica_wss_module",
      "get_module_supports_multi_commands_of_nistica_wss_module",
      "get_module_supports_table_and_row_commands_of_nistica_wss_module",
      "get_module_supports_long_cmd_format_of_nistica_wss_module",
      "get_module_supports_broadcast_of_nistica_wss_module",
      "get_power_on_self_test_results_of_nistica_wss_module",
      "get_module_status_of_nistica_wss_module",
      "get_boot_mode_of_nistica_wss_module",
      "get_active_partition_number_of_nistica_wss_module",
      "get_booted_partition_number_of_nistica_wss_module",
      "get_partition_1_firmware_version_of_nistica_wss_module",
      "get_partition_2_firmware_version_of_nistica_wss_module",
      "get_bootloader_version_of_nistica_wss_module",
      "get_module_uptime_low_word_of_nistica_wss_module",
      "get_module_uptime_high_word_of_nistica_wss_module",
      "get_module_supports_array_commands_of_nistica_wss_module" }

\* the accessors that send a single-write frame to the boot mode register
BootModeSetters ==
    { "set_cold_boot_mode_for_nistica_wss_module",
      "set_warm_boot_mode_for_nistica_wss_module",
      "set_watchdog_reset_boot_mode_for_nistica_wss_module",
      "set_hot_boot_mode_for_nistica_wss_module" }

Accessors ==
    GetAccessors \cup BootModeSetters
        \cup { "set_waveplan_of_nistica_wss_module",
               "set_channel_port_of_nistica_wss_module" }

LiteralPacket(f) ==
    CASE f = "get_vendor_name_of_nistica_wss_module" -> pkt_get_vendor_name
      [] f = "get_minimum_frequency_bound_of_nistica_wss_module" -> pkt_get_minimum_frequency_bound
      [] f = "get_maximum_frequency_bound_of_nistica_wss_module" -> pkt_get_maximum_frequency_bound
      [] f = "get_minimum_channel_bandwidth_of_nistica_wss_module" -> pkt_get_minimum_channel_bandwidth
      [] f = "get_maximum_wss_id_value_of_nistica_wss_module" -> pkt_get_maximum_wss_id_value
      [] f = "get_maximum_ocm_id_value_of_nistica_wss_module" -> pkt_get_maximum_ocm_id_value
      [] f = "get_maximum_waveplan_id_value_of_nistica_wss_module" -> pkt_get_maximum_waveplan_id_value
      [] f = "get_module_supports_multi_commands_of_nistica_wss_module" -> pkt_get_module_supports_multi_commands
      [] f = "get_module_supports_table_and_row_commands_of_nistica_wss_module" -> pkt_get_module_supports_table_and_row_commands
      [] f = "get_module_supports_long_cmd_format_of_nistica_wss_module" -> pkt_get_module_supports_long_cmd_format
      [] f = "get_module_supports_broadcast_of_nistica_wss_module" -> pkt_get_module_supports_broadcast
      [] f = "get_power_on_self_test_results_of_nistica_wss_module" -> pkt_get_power_on_self_test_results
      [] f = "get_module_status_of_nistica_wss_module" -> pkt_get_module_status
      [] f = "get_boot_mode_of_nistica_wss_module" -> pkt_get_boot_mode
      [] f = "set_cold_boot_mode_for_nistica_wss_module" -> pkt_set_cold_boot_mode
      [] f = "set_warm_boot_mode_for_nistica_wss_module" -> pkt_set_warm_boot_mode
      [] f = "set_watchdog_reset_boot_mode_for_nistica_wss_module" -> pkt_set_watchdog_reset_boot_mode
      [] f = "set_hot_boot_mode_for_nistica_wss_module" -> pkt_set_hot_boot_mode
      [] f = "get_active_partition_number_of_nistica_wss_module" -> pkt_get_active_partition_number
      [] f = "get_booted_partition_number_of_nistica_wss_module" -> pkt_get_booted_partition_number
      [] f = "get_partition_1_firmware_version_of_nistica_wss_module" -> pkt_get_partition_1_firmware_version
      [] f = "get_partition_2_firmware_version_of_nistica_wss_module" -> pkt_get_partition_2_firmware_version
      [] f = "get_bootloader_version_of_nistica_wss_module" -> pkt_get_bootloader_version
      [] f = "get_module_uptime_low_word_of_nistica_wss_module" -> pkt_get_module_uptime_low_word
      [] f = "get_module_uptime_high_word_of_nistica_wss_module" -> pkt_get_module_uptime_high_word
      [] f = "get_module_supports_array_commands_of_nistica_wss_module" -> pkt_get_module_supports_array_commands

-----------------------------------------------------------------------------
(* Arguments of a call.  center_frequency_in_Thz is held in thousandths of *)
(* a THz and bandwidth_in_Ghz in eighths of a GHz, so that the float       *)
(* arithmetic of set_waveplan is exact integer arithmetic here.            *)
(* multi_obj_write is the value the build gives MULTI_OBJ_WRITE, which no  *)
(* header of the repository defines; checksum_placeholder is the byte the  *)
(* build stores for the string literal "calcludate the checksum";          *)
(* char_is_signed tells whether plain char is a signed type in the build,  *)
(* big_endian_host whether the build stores the high byte of an integer    *)
(* first.                                                                  *)

NoArgs ==
    [ number_of_channels      |-> 0,
      center_frequency_in_Thz |-> 0,
      bandwidth_in_Ghz        |-> 0,
      start_of_channel        |-> 0,
      end_of_channel          |-> 0,
      port_id                 |-> 0,
      multi_obj_write         |-> 0,
      checksum_placeholder    |-> 0,
      char_is_signed          |-> FALSE,
      big_endian_host         |-> FALSE ]

\* 1000 * (center_frequency_in_Thz / 3.125), converted to int
center_frequency_in_3125_multiple(a) ==
    (a.center_frequency_in_Thz * 8) \div 25

\* 1000 * (bandwidth_in_Ghz / 3.125), converted to int
bandwidth_in_3125_multiple(a) ==
    (a.bandwidth_in_Ghz * 1000) \div 25

\* ((unsigned char*) &v)[i] for an integer v stored in size bytes: byte i
\* counted from the low end on a little-endian host, from the high end on a
\* big-endian host
InMemory(v, size, i, big) ==
    IF big THEN (v \div (256 ^ (size - 1 - i))) % 256
           ELSE (v \div (256 ^ i)) % 256

\* mutant: the length byte counts the bytes up to the last data byte only
pkt_set_waveplan_len_without_sum(a) ==
    << \Hdd, \H01, \H01, \H1a, a.multi_obj_write,
       \Ha3, \H01, \H01, InMemory(a.number_of_channels, 2, 0, a.big_endian_host), InMemory(a.number_of_channels, 2, 1, a.big_endian_host),
       \Ha0, \H01, \H01, InMemory(center_frequency_in_3125_multiple(a), 4, 0, a.big_endian_host),
                         InMemory(center_frequency_in_3125_multiple(a), 4, 1, a.big_endian_host),
       \Ha1, \H01, \H01, InMemory(bandwidth_in_3125_multiple(a), 4, 0, a.big_endian_host),
                         InMemory(bandwidth_in_3125_multiple(a), 4, 1, a.big_endian_host),
       \Ha2, \H01, \H01, \H00, \H01,
       \Ha4, \H01, \H01, \H00, \H01,
       \H73, \Hdd, \H02 >>

pkt_set_waveplan(a) ==
    << \Hdd, \H01, \H01, \H1b, a.multi_obj_write,
       \Ha3, \H01, \H01, InMemory(a.number_of_channels, 2, 0, a.big_endian_host), InMemory(a.number_of_channels, 2, 1, a.big_endian_host),
       \Ha0, \H01, \H01, InMemory(center_frequency_in_3125_multiple(a), 4, 0, a.big_endian_host),
                         InMemory(center_frequency_in_3125_multiple(a), 4, 1, a.big_endian_host),
       \Ha1, \H01, \H01, InMemory(bandwidth_in_3125_multiple(a), 4, 0, a.big_endian_host),
                         InMemory(bandwidth_in_3125_multiple(a), 4, 1, a.big_endian_host),
       \Ha2, \H01, \H01, \H00, \H01,
       \Ha4, \H01, \H01, \H00, \H01,
       \H73, \Hdd, \H02 >>

\* int length = end_of_channel + 5;
channel_port_length(a) == a.end_of_channel + 5

\* an int or unsigned short stored in a char array element keeps its low byte
ToChar(v) == v % 256

pkt_set_channel_port(a) ==
    << \Hdd, \H01, \H20, ToChar(channel_port_length(a)), ARRAY_WRITE, \Haa,
       ToChar(a.start_of_channel), \H01, ToChar(a.end_of_channel), ToChar(a.port_id),
       a.checksum_placeholder, \Hdd, \H02 >>

Packet(f, a) ==
    CASE f = "set_waveplan_of_nistica_wss_module"     -> pkt_set_waveplan(a)
      [] f = "set_channel_port_of_nistica_wss_module" -> pkt_set_channel_port(a)
      [] OTHER                                        -> LiteralPacket(f)

\* strlen(packet_to_transmit): the number of bytes before the first 0x00.
\* A frame that holds no 0x00 is read past its end; overrun is how far.
Strlen(p, overrun) ==
    IF \E i \in 1 .. Len(p) : p[i] = 0
    THEN (CHOOSE i \in 1 .. Len(p) : p[i] = 0 /\ \A j \in 1 .. i - 1 : p[j] # 0) - 1
    ELSE Len(p) + overrun

\* the bytes handed to transmit_packet_via_uart_port
Transmitted(p, n) == [ i \in 1 .. n |-> IF i <= Len(p) THEN p[i] ELSE 0 ]

-----------------------------------------------------------------------------
(* The response *)

\* uart_received_packet_return[i]: the buffer is zero-initialised and the
\* receive stores the response from its first element on
Buf(rx, i) == IF i < Len(rx) THEN rx[i + 1] ELSE 0

\* Response from WSS : 0xdd 0x01 MID LEN RES DATA SUM 0xdd 0x02
Response(mid, len, res, data) ==
    << \Hdd, \H01, mid, len, res >> \o data
       \o << XorFold(<< mid, len, res >> \o data, 1, 3 + Len(data)), \Hdd, \H02 >>

\* mutant: the MID of the response is not compared
ValidateMID_skipped(p, rx) == TRUE

\* Validate MID -> packet_to_transmit[2] == uart_received_packet_return[2];
ValidateMID(p, rx) == p[3] = Buf(rx, 2)

\* mutant: the RES of the response is not compared
ValidateRES_skipped(rx) == TRUE

\* Validate RES -> SUCCESS == uart_received_packet_return[4];
ValidateRES(rx) == SUCCESS = Buf(rx, 4)

VendorNameAccessors == { "get_vendor_name_of_nistica_wss_module" }

FlashInformationAccessors ==
    { "get_active_partition_number_of_nistica_wss_module",
      "get_booted_partition_number_of_nistica_wss_module",
      "get_partition_1_firmware_version_of_nistica_wss_module",
      "get_partition_2_firmware_version_of_nistica_wss_module",
      "get_bootloader_version_of_nistica_wss_module" }

\* mutant: every fixed-length response is compared with the vendor name's LEN
ValidateLEN_vendor_len_for_all(f, rx) ==
    f \in VendorNameAccessors \cup FlashInformationAccessors => \H6c = Buf(rx, 3)

\* mutant: the LEN of the response is not compared
ValidateLEN_skipped(f, rx) == TRUE

\* Validate LEN -> 0x6c == uart_received_packet_return[3];   (vendor name)
\* Validate LEN -> 0x66 == uart_received_packet_return[3];   (flash information)
ValidateLEN(f, rx) ==
    /\ f \in VendorNameAccessors       => \H6c = Buf(rx, 3)
    /\ f \in FlashInformationAccessors => \H66 = Buf(rx, 3)

\* "If all validation passes"
Validate(f, p, rx) == ValidateMID(p, rx) /\ ValidateRES(rx) /\ ValidateLEN(f, rx)

\* the bytes uart_received_packet_return[lo] .. uart_received_packet_return[hi]
Bytes(rx, lo, hi) == [ i \in 1 .. hi - lo + 1 |-> Buf(rx, lo + i - 1) ]

ScaledAccessors ==
    { "get_minimum_frequency_bound_of_nistica_wss_module",
      "get_maximum_frequency_bound_of_nistica_wss_module",
      "get_minimum_channel_bandwidth_of_nistica_wss_module" }

\* the value of a char element holding byte b when it is promoted to int
CharValue(b, signed) == IF signed /\ b >= 128 THEN b - 256 ELSE b

\* a | b on two promoted char values (two's complement)
IntOr(x, y) ==
    LET bits == BitOr(x % 65536, y % 65536)
    IN  IF bits >= 32768 THEN bits - 65536 ELSE bits

\* "uart_received_packet_return[5] and uart_received_packet_return[6], OR both bytes"
OrBothBytes(a, rx) ==
    IntOr(CharValue(Buf(rx, 5), a.char_is_signed), CharValue(Buf(rx, 6), a.char_is_signed))

\* the integral part of raw * 3.125
Times3125(raw) ==
    IF raw >= 0 THEN (raw * 25) \div 8 ELSE 0 - ((0 - raw) * 25) \div 8

\* what a conversion to unsigned short may give for a value outside
\* 0 .. 65535: the low 16 bits, or the nearest bound
ConversionChoices(f, a, rx) ==
    IF f \in ScaledAccessors /\ Times3125(OrBothBytes(a, rx)) \notin 0 .. 65535
    THEN { "wrap", "saturate" } ELSE { "wrap" }

\* "multiply the result by 3.125 and store it" in an unsigned short
MultiplyBy3125(raw, conv) ==
    LET t == Times3125(raw)
    IN  IF t \in 0 .. 65535 THEN t
        ELSE IF conv = "wrap" THEN t % 65536
        ELSE IF t < 0 THEN 0 ELSE 65535

\* the accessors whose pseudo-code names no extraction: they only report status
StatusOnlyAccessors ==
    BootModeSetters \cup { "set_waveplan_of_nistica_wss_module",
                           "set_channel_port_of_nistica_wss_module" }

\* status_of_array_cmd is passed by value: the caller's variable is not reachable
ByValueAccessors == { "get_module_supports_array_commands_of_nistica_wss_module" }

\* mutant: the vendor name ends one byte earlier
VendorName_to_10th_byte(rx) == Bytes(rx, 5, 10)

\* "extract Vendor Name from uart_received_packet_return from 5th byte to 11th byte"
VendorName(rx) == Bytes(rx, 5, 11)

\* the value the validated path extracts
Extract(f, a, rx, conv) ==
    CASE f = "get_vendor_name_of_nistica_wss_module"                  -> VendorName(rx)
      [] f = "get_active_partition_number_of_nistica_wss_module"      -> Bytes(rx, 5, 5)
      [] f = "get_booted_partition_number_of_nistica_wss_module"      -> Bytes(rx, 7, 7)
      [] f = "get_partition_1_firmware_version_of_nistica_wss_module" -> Bytes(rx, 9, 16)
      [] f = "get_partition_2_firmware_version_of_nistica_wss_module" -> Bytes(rx, 18, 25)
      [] f = "get_bootloader_version_of_nistica_wss_module"           -> Bytes(rx, 27, 31)
      [] f = "get_module_uptime_low_word_of_nistica_wss_module"       -> Bytes(rx, 5, 5)
      [] f = "get_module_uptime_high_word_of_nistica_wss_module"      -> Bytes(rx, 38, 38)
      [] f = "get_module_supports_array_commands_of_nistica_wss_module" -> Bytes(rx, 5, 5)
      [] f \in ScaledAccessors                                        -> << MultiplyBy3125(OrBothBytes(a, rx), conv) >>
      [] OTHER                                                        -> << OrBothBytes(a, rx) >>

\* the accessors that OR the bytes at offsets 5 and 6
OrAccessors ==
    GetAccessors \ ( VendorNameAccessors \cup FlashInformationAccessors \cup ByValueAccessors
                     \cup { "get_module_uptime_low_word_of_nistica_wss_module",
                            "get_module_uptime_high_word_of_nistica_wss_module" } )

\* the caller's output argument after the validated path; before the call it is << >>
Store(f, a, rx, conv, old) ==
    IF f \in StatusOnlyAccessors \cup ByValueAccessors THEN old ELSE Extract(f, a, rx, conv)

-----------------------------------------------------------------------------
(* Inputs of the model *)

NumberOfChannelsChoices == { 40, 256, 300 }

\* 191.3 THz, 193.405 THz, 205 THz
CenterFrequencyChoices == { 191300, 193405, 205000 }

\* 50 GHz, 3.125 GHz, 37.5 GHz
BandwidthChoices == { 400, 25, 300 }

\* \H94 is the value for which the literal checksum 0x73 fits the documented
\* example (40 channels, 191.3 THz, 50 GHz)
MultiObjWriteChoices == { \H03, \H11, \H94 }

StartOfChannelChoices == { 0, 1, 300 }

EndOfChannelChoices == { 1, 96, 300 }

PortIdChoices == { 1, 2 }

ChecksumPlaceholderChoices == { \H00, \H2a, \Hc8 }

\* how far strlen may run past a frame that holds no 0x00
MaxOverrun == 1

\* strlen runs past the end only of a frame that holds no 0x00
OverrunChoices(p) ==
    IF \E i \in 1 .. Len(p) : p[i] = 0 THEN { 0 } ELSE 0 .. MaxOverrun

ArgsOf(f) ==
    CASE f = "set_waveplan_of_nistica_wss_module" ->
            { [ NoArgs EXCEPT !.number_of_channels = n,
                              !.center_frequency_in_Thz = c,
                              !.bandwidth_in_Ghz = b,
                              !.multi_obj_write = m,
                              !.big_endian_host = e ] :
                n \in NumberOfChannelsChoices, c \in CenterFrequencyChoices,
                b \in BandwidthChoices, m \in MultiObjWriteChoices, e \in BOOLEAN }
      [] f = "set_channel_port_of_nistica_wss_module" ->
            { [ NoArgs EXCEPT !.start_of_channel = s,
                              !.end_of_channel = e,
                              !.port_id = p,
                              !.checksum_placeholder = k ] :
                s \in StartOfChannelChoices, e \in EndOfChannelChoices,
                p \in PortIdChoices, k \in ChecksumPlaceholderChoices }
      [] f \in OrAccessors -> { [ NoArgs EXCEPT !.char_is_signed = c ] : c \in BOOLEAN }
      [] OTHER -> { NoArgs }

\* what the two UART functions may return
TransportStatusChoices == { SUCCESS, FAILURE, 1 }

\* a message id no accessor uses
OtherMID == \H7f

LenChoices == { \H6c, \H66, \H07 }

ResChoices == { 0, 1 }

DataChoices ==
    { << \H60, \H00 >>,
      << \H20, \Hef >>,
      << \H4e, \H69, \H73, \H74, \H69, \H63, \H61 >> }

\* the number of bytes of the response that arrive
CutChoices == { 3, 9, 255 }

Cut(s, n) == SubSeq(s, 1, IF n < Len(s) THEN n ELSE Len(s))

\* what the line may do to a response: alter one byte of the start marker,
\* of the end marker, or the checksum byte
DamageChoices == { "none", "start0", "start1", "end0", "end1", "sum" }

DamagedAt(s, d) ==
    CASE d = "start0" -> 1
      [] d = "start1" -> 2
      [] d = "end0"   -> Len(s) - 1
      [] d = "end1"   -> Len(s)
      [] d = "sum"    -> Len(s) - 2
      [] OTHER        -> 0

Damage(s, d) ==
    IF d = "none" THEN s ELSE [ s EXCEPT ![DamagedAt(s, d)] = (@ + 1) % 256 ]

-----------------------------------------------------------------------------
(* Control flow of an accessor *)

\* mutant: the receive buffer is static, its bytes outlive the call
BufferAtEntry_static(old) == old

\* char uart_received_packet_return[255]={0};  the bytes stored at the entry
\* of the accessor, given what the memory held: none, every element is 0
BufferAtEntry(old) == << >>

\* the buffer after the receive has stored bytes from its first element on
StoredOver(bytes, old) ==
    bytes \o SubSeq(old, Len(bytes) + 1, Len(old))

\* printf(message): the line is added to the standard output
Printf(stream, message) == Append(stream, message)

\* mutant: the accessor goes on to the receive whatever the transmit returned
AfterTransmit_goes_on(status) == "transmitted"

\* if(SUCCESS != transmit_packet) return FAILURE;
AfterTransmit(status) == IF SUCCESS # status THEN "returned" ELSE "transmitted"

\* mutant: a failed receive is tried again
AfterReceive_retry(status) == IF SUCCESS # status THEN "transmitted" ELSE "returned"

\* after the receive the accessor validates and returns on every path
AfterReceive(status) == "returned"

\* mutant: the extracted value is stored before the validation is looked at
OutputAfter_stored_first(valid, stored, old) == stored

\* "If above validation passes -> extract ... and store";
\* "If any validation fail -> Return error"
OutputAfter(valid, stored, old) == IF valid THEN stored ELSE old

\* 0 : Success, -1 : Failure
ReturnValue(valid) == IF valid THEN SUCCESS ELSE FAILURE

\* the threads of the application that call the library
Threads == { 1, 2 }

\* the UART ports a WSS module is connected to
Ports == { 1, 2 }

\* a thread that is in no accessor
NotInCall ==
    [ pc                 |-> "idle",
      fn                 |-> "",
      uart_port_number   |-> 0,
      packet_to_transmit |-> << >>,
      transmit_packet    |-> 0,
      receive_packet     |-> 0,
      ret                |-> 0,
      out                |-> << >>,
      got                |-> [ for |-> 0, bytes |-> << >> ] ]

Init ==
    /\ pc = "idle"
    /\ fn = "get_vendor_name_of_nistica_wss_module"
    /\ args = NoArgs
    /\ packet_to_transmit = << >>
    /\ length_of_packet_to_transmit = 0
    /\ uart_received_packet_return = << >>
    /\ length_of_received_packet_return = 0
    /\ transmit_packet = 0
    /\ receive_packet = 0
    /\ ret = 0
    /\ out = << >>
    /\ ntx = 0
    /\ nrx = 0
    /\ stdout = << >>
    /\ line_tx = << >>
    /\ line_rx = << >>
    /\ answered = ""
    /\ th = [ t \in Threads |-> NotInCall ]
    /\ rxbuf = [ t \in Threads |-> << >> ]
    /\ port_rx = [ p \in Ports |-> << >> ]

\* From the entry of accessor f up to the return of transmit_packet_via_uart_port
AccessorTransmit(f, a, status, overrun) ==
    /\ pc = "idle"
    /\ fn' = f
    /\ args' = a
    /\ packet_to_transmit' = Packet(f, a)
    /\ length_of_packet_to_transmit' = Strlen(Packet(f, a), overrun)
    /\ uart_received_packet_return' = BufferAtEntry(uart_received_packet_return)
    /\ length_of_received_packet_return' = 0
    /\ transmit_packet' = status
    /\ receive_packet' = 0
    /\ ntx' = ntx + 1
    /\ nrx' = 0
    /\ out' = << >>
    /\ ret' = IF SUCCESS # status THEN FAILURE ELSE ret
    /\ stdout' = IF SUCCESS # status
                 THEN Printf(stdout, "Error : Failed to transmit packet via UART Port")
                 ELSE stdout
    /\ pc' = AfterTransmit(status)

\* From receive_packet_via_uart_port to the return of the accessor
AccessorReceive(status, bytes) ==
    /\ pc = "transmitted"
    /\ nrx' = nrx + 1
    /\ receive_packet' = status
    /\ length_of_received_packet_return' = IF SUCCESS # status THEN 0 ELSE Len(bytes)
    /\ LET rx    == IF SUCCESS # status THEN uart_received_packet_return
                    ELSE StoredOver(bytes, uart_received_packet_return)
           valid == SUCCESS = status /\ Validate(fn, packet_to_transmit, rx)
       IN  /\ uart_received_packet_return' = rx
           /\ ret' = ReturnValue(valid)
           /\ \E conv \in ConversionChoices(fn, args, rx) :
                  out' = OutputAfter(valid, Store(fn, args, rx, conv, out), out)
    /\ stdout' = IF SUCCESS # status
                 THEN Printf(stdout, "Error : Failed to receive packet via UART Port")
                 ELSE stdout
    /\ pc' = AfterReceive(status)
    /\ UNCHANGED << fn, args, packet_to_transmit, length_of_packet_to_transmit,
                    transmit_packet, ntx >>

\* The accessor has returned and the caller goes on.  The locals are gone;
\* the memory that held the receive buffer keeps its bytes.
Return ==
    /\ pc = "returned"
    /\ pc' = "idle"
    /\ packet_to_transmit' = << >>
    /\ length_of_packet_to_transmit' = 0
    /\ length_of_received_packet_return' = 0
    /\ transmit_packet' = 0
    /\ receive_packet' = 0
    /\ ret' = 0
    /\ out' = << >>
    /\ ntx' = 0
    /\ nrx' = 0
    /\ stdout' = << >>
    /\ fn' = "get_vendor_name_of_nistica_wss_module"
    /\ args' = NoArgs
    /\ UNCHANGED uart_received_packet_return

Call ==
    \E f \in Accessors : \E a \in ArgsOf(f) :
    \E status \in TransportStatusChoices : \E overrun \in OverrunChoices(Packet(f, a)) :
        /\ AccessorTransmit(f, a, status, overrun)
        /\ UNCHANGED << lineVars, threadVars >>

ReceiveFailure ==
    \E status \in TransportStatusChoices \ { SUCCESS } :
        /\ AccessorReceive(status, << >>)
        /\ UNCHANGED << lineVars, threadVars >>

ReceiveResponse ==
    /\ pc = "transmitted"
    /\ \E mid \in { packet_to_transmit[3], OtherMID, 0 } : \E len \in LenChoices :
       \E res \in ResChoices : \E data \in DataChoices : \E cut \in CutChoices :
       \E d \in DamageChoices :
           /\ d = "none" \/ cut = 255
           /\ AccessorReceive(SUCCESS, Cut(Damage(Response(mid, len, res, data), d), cut))
    /\ UNCHANGED << lineVars, threadVars >>

CallerGoesOn == Return /\ UNCHANGED << lineVars, threadVars >>

Next == Call \/ ReceiveFailure \/ ReceiveResponse \/ CallerGoesOn

Spec == Init /\ [][Next]_vars

-----------------------------------------------------------------------------
(* The port as a line: the requests the module has not answered yet and   *)
(* the responses that wait to be read.  The module answers each request    *)
(* with a response that echoes its MID; the receive of a call may fail     *)
(* before the response is there, and the response then stays on the line.  *)

\* requests and responses the line can hold
MaxInFlight == 1

\* the arguments used on the line: the documented examples
LineArgs(f) ==
    CASE f = "set_waveplan_of_nistica_wss_module" ->
            [ NoArgs EXCEPT !.number_of_channels = 40,
                            !.center_frequency_in_Thz = 191300,
                            !.bandwidth_in_Ghz = 400,
                            !.multi_obj_write = \H94 ]
      [] f = "set_channel_port_of_nistica_wss_module" ->
            [ NoArgs EXCEPT !.start_of_channel = 1,
                            !.end_of_channel = 96,
                            !.port_id = 1,
                            !.checksum_placeholder = \H2a ]
      [] OTHER -> NoArgs

\* the LEN byte of the module's response
ModuleLen(f) ==
    IF f \in VendorNameAccessors THEN \H6c
    ELSE IF f \in FlashInformationAccessors THEN \H66
    ELSE \H04

\* Response from WSS : 0xdd 0x01 MID LEN RES DATA SUM 0xdd 0x02, MID echoed
ModuleResponse(req, res) ==
    [ fn |-> req.fn,
      bytes |-> Response(req.bytes[3], ModuleLen(req.fn), res, << \H60, \H00 >>) ]

LineCall ==
    \E f \in Accessors : \E status \in { SUCCESS, FAILURE } :
        /\ AccessorTransmit(f, LineArgs(f), status, 0)
        /\ line_tx' = IF status = SUCCESS /\ Len(line_tx) + Len(line_rx) < MaxInFlight
                      THEN Append(line_tx,
                                  [ fn |-> f,
                                    bytes |-> Transmitted(Packet(f, LineArgs(f)),
                                                          Strlen(Packet(f, LineArgs(f)), 0)) ])
                      ELSE line_tx
        /\ answered' = ""
        /\ UNCHANGED << line_rx, threadVars >>

ModuleReply ==
    /\ line_tx # << >>
    /\ \E res \in ResChoices :
           line_rx' = Append(line_rx, ModuleResponse(Head(line_tx), res))
    /\ line_tx' = Tail(line_tx)
    /\ UNCHANGED << callVars, answered, threadVars >>

LineReceiveFailure ==
    /\ AccessorReceive(FAILURE, << >>)
    /\ UNCHANGED << lineVars, threadVars >>

LineReceive ==
    /\ line_rx # << >>
    /\ AccessorReceive(SUCCESS, Head(line_rx).bytes)
    /\ answered' = Head(line_rx).fn
    /\ line_rx' = Tail(line_rx)
    /\ UNCHANGED << line_tx, threadVars >>

LineCallerGoesOn ==
    /\ Return
    /\ answered' = ""
    /\ UNCHANGED << line_tx, line_rx, threadVars >>

LineNext == LineCall \/ ModuleReply \/ LineReceiveFailure \/ LineReceive \/ LineCallerGoesOn

SpecLine == Init /\ [][LineNext]_vars

-----------------------------------------------------------------------------
(* Two threads of one application call accessors.  The library holds no    *)
(* lock: the steps of two calls interleave freely.  uart_port_number is an *)
(* argument of each call.  The module behind a port answers every request  *)
(* it gets, in the order of the requests, unless the request is lost on    *)
(* the way; a receive fails when no response waits on the port.            *)

\* thread 1 reads the minimum frequency bound, thread 2 the maximum
AccessorOf(t) ==
    IF t = 1 THEN "get_minimum_frequency_bound_of_nistica_wss_module"
             ELSE "get_maximum_frequency_bound_of_nistica_wss_module"

\* the data the module holds in the register the accessor reads
ModuleData(f) ==
    IF f = "get_minimum_frequency_bound_of_nistica_wss_module"
    THEN << \H60, \H00 >> ELSE << \H01, \H02 >>

\* mutant: one static receive buffer serves every call
RxBufferOf_static(t) == 1

\* char uart_received_packet_return[255]={0}; is a local of the call
RxBufferOf(t) == t

\* thread t enters accessor f on port p, up to the return of the transmit
ThreadTransmit(t, f, p, status, answers, res) ==
    /\ th[t].pc = "idle"
    /\ th' = [ th EXCEPT ![t] =
                 [ pc                 |-> AfterTransmit(status),
                   fn                 |-> f,
                   uart_port_number   |-> p,
                   packet_to_transmit |-> Packet(f, NoArgs),
                   transmit_packet    |-> status,
                   receive_packet     |-> 0,
                   ret                |-> IF SUCCESS # status THEN FAILURE ELSE 0,
                   out                |-> << >>,
                   got                |-> NotInCall.got ] ]
    /\ rxbuf' = [ rxbuf EXCEPT ![RxBufferOf(t)] = << >> ]
    /\ port_rx' = IF SUCCESS = status /\ answers
                  THEN [ port_rx EXCEPT ![p] =
                           Append(@, [ for   |-> t,
                                       bytes |-> Response(Packet(f, NoArgs)[3], \H04, res,
                                                          ModuleData(f)) ]) ]
                  ELSE port_rx
    /\ UNCHANGED << callVars, lineVars >>

\* receive_packet_via_uart_port of thread t returns the next response of its port
ThreadReceive(t) ==
    /\ th[t].pc = "transmitted"
    /\ port_rx[th[t].uart_port_number] # << >>
    /\ LET r == Head(port_rx[th[t].uart_port_number])
       IN  /\ rxbuf' = [ rxbuf EXCEPT ![RxBufferOf(t)] = r.bytes ]
           /\ th' = [ th EXCEPT ![t].pc = "received",
                                ![t].receive_packet = SUCCESS,
                                ![t].got = r ]
    /\ port_rx' = [ port_rx EXCEPT ![th[t].uart_port_number] = Tail(@) ]
    /\ UNCHANGED << callVars, lineVars >>

\* receive_packet_via_uart_port of thread t fails: return FAILURE
ThreadReceiveFailure(t) ==
    /\ th[t].pc = "transmitted"
    /\ port_rx[th[t].uart_port_number] = << >>
    /\ th' = [ th EXCEPT ![t].pc = AfterReceive(FAILURE),
                         ![t].receive_packet = FAILURE,
                         ![t].ret = FAILURE ]
    /\ UNCHANGED << rxbuf, port_rx, callVars, lineVars >>

\* thread t validates what its receive buffer holds, extracts and returns
ThreadValidate(t) ==
    /\ th[t].pc = "received"
    /\ LET rx    == rxbuf[RxBufferOf(t)]
           valid == Validate(th[t].fn, th[t].packet_to_transmit, rx)
       IN  th' = [ th EXCEPT ![t].pc = AfterReceive(SUCCESS),
                             ![t].ret = ReturnValue(valid),
                             ![t].out = OutputAfter(valid,
                                                     Store(th[t].fn, NoArgs, rx, "wrap", @), @) ]
    /\ UNCHANGED << rxbuf, port_rx, callVars, lineVars >>

\* the accessor of thread t has returned and the thread goes on
ThreadReturn(t) ==
    /\ th[t].pc = "returned"
    /\ th' = [ th EXCEPT ![t] = NotInCall ]
    /\ rxbuf' = [ rxbuf EXCEPT ![RxBufferOf(t)] = << >> ]
    /\ UNCHANGED << port_rx, callVars, lineVars >>

ThreadsCall ==
    \E t \in Threads : \E p \in Ports :
    \E status \in { SUCCESS, FAILURE } : \E answers \in BOOLEAN : \E res \in ResChoices :
        ThreadTransmit(t, AccessorOf(t), p, status, answers, res)

ThreadsReceive == \E t \in Threads : ThreadReceive(t)

ThreadsReceiveFailure == \E t \in Threads : ThreadReceiveFailure(t)

ThreadsValidate == \E t \in Threads : ThreadValidate(t)

ThreadsGoOn == \E t \in Threads : ThreadReturn(t)

ThreadsNext ==
    ThreadsCall \/ ThreadsReceive \/ ThreadsReceiveFailure \/ ThreadsValidate \/ ThreadsGoOn

SpecThreads == Init /\ [][ThreadsNext]_vars

-----------------------------------------------------------------------------
(* Checks *)

\* a call has built its frame
FrameBuilt == pc # "idle"

\* the checksum byte of a frame: the byte right before the end marker
SumOf(p) == p[Len(p) - 2]

\* XOR of all bytes from MID through the last byte before the checksum
XorOfBody(p) == XorFold(p, 3, Len(p) - 3)

\* a response arrived and the accessor went through its validation
Validated == pc = "returned" /\ transmit_packet = SUCCESS /\ receive_packet = SUCCESS

\* C1: in every single-read frame a get_* accessor builds (11 bytes), the SUM
\* byte at offset 8 equals the XOR of the bytes at offsets 2..7 (MID through PAR).
C1_ReadChecksumIsXor ==
    (FrameBuilt /\ fn \in GetAccessors) =>
        /\ Len(packet_to_transmit) = 11
        /\ packet_to_transmit[9] = XorFold(packet_to_transmit, 3, 8)

\* C2: in every single-write frame of the four set_*_boot_mode functions the
\* checksum byte equals the XOR of every byte from MID through the last data byte.
C2_BootModeChecksumIsXor ==
    (FrameBuilt /\ fn \in BootModeSetters) =>
        SumOf(packet_to_transmit) = XorOfBody(packet_to_transmit)

\* C3: for every combination of arguments of set_waveplan and set_channel_port
\* the checksum byte of the frame equals the XOR of all bytes from MID through
\* the last data byte of the last group.
C3_CompositeChecksumIsXor ==
    (FrameBuilt /\ fn \in { "set_waveplan_of_nistica_wss_module",
                            "set_channel_port_of_nistica_wss_module" }) =>
        SumOf(packet_to_transmit) = XorOfBody(packet_to_transmit)

\* C4: if the message id of the response (offset 2) differs from the message id
\* of the frame just transmitted, the call fails and nothing is stored in the
\* caller's output, whatever the other response bytes are.
C4_MidMismatchFails ==
    ( /\ Validated
      /\ Len(uart_received_packet_return) > 2
      /\ uart_received_packet_return[3] # packet_to_transmit[3] ) =>
        (ret = FAILURE /\ out = << >>)

\* C4 witness: a response with a foreign MID whose RES and LEN would pass
C4_Witness ==
    /\ Validated
    /\ fn = "get_vendor_name_of_nistica_wss_module"
    /\ Len(uart_received_packet_return) > 11
    /\ uart_received_packet_return[3] = OtherMID
    /\ uart_received_packet_return[4] = 108
    /\ uart_received_packet_return[5] = 0
    /\ ret = FAILURE

\* C5: if the result byte of the response (offset 4) is non-zero the call fails
\* regardless of the payload, and no payload byte is stored as a value.
C5_NonZeroResFails ==
    ( /\ Validated
      /\ Len(uart_received_packet_return) > 4
      /\ uart_received_packet_return[5] # 0 ) =>
        (ret = FAILURE /\ out = << >>)

\* C5 witness: the right MID, a non-zero RES and a payload
C5_Witness ==
    /\ Validated
    /\ fn = "get_boot_mode_of_nistica_wss_module"
    /\ Len(uart_received_packet_return) > 6
    /\ uart_received_packet_return[3] = packet_to_transmit[3]
    /\ uart_received_packet_return[5] = 1
    /\ uart_received_packet_return[6] = 96
    /\ ret = FAILURE

\* C6: over any sequence of calls on one port, a reply the module produced for
\* an earlier request (delivered late) is never accepted as the successful
\* result of a later call to a different accessor.
C6_StaleReplyRejected ==
    (Validated /\ answered # "" /\ answered # fn) => ret = FAILURE

C8_OneExchange ==
    /\ ntx <= 1
    /\ nrx <= 1
    /\ FrameBuilt => ntx = 1
    /\ pc = "transmitted" => nrx = 0

\* C8 witness: a call that failed on the MID check after one transmit, one receive
C8_Witness ==
    /\ Validated
    /\ Buf(uart_received_packet_return, 2) # packet_to_transmit[3]
    /\ ret = FAILURE
    /\ ntx = 1
    /\ nrx = 1

C10_VendorNameFrame ==
    (FrameBuilt /\ fn = "get_vendor_name_of_nistica_wss_module") =>
        packet_to_transmit = << 221, 1, 1, 5, 2, 6, 1, 0, 1, 221, 2 >>

\* C10 witness: get_vendor_name has built and transmitted its frame
C10_Witness ==
    /\ pc = "transmitted"
    /\ fn = "get_vendor_name_of_nistica_wss_module"
    /\ Len(packet_to_transmit) = 11

\* the response starts with DD 01 and ends with DD 02
MarkersIntact(rx) ==
    /\ Len(rx) >= 4
    /\ rx[1] = 221 /\ rx[2] = 1
    /\ rx[Len(rx) - 1] = 221 /\ rx[Len(rx)] = 2

\* C11: a response whose first two bytes are not DD 01 or whose last two bytes
\* are not DD 02 is rejected by every accessor, whichever marker byte is altered.
C11_BadMarkersRejected ==
    ( /\ Validated
      /\ Len(uart_received_packet_return) >= 4
      /\ ~ MarkersIntact(uart_received_packet_return) ) => ret = FAILURE

\* C12: a response shorter than 11 bytes is rejected by every accessor, even
\* when the bytes that arrived carry the right message id.
C12_ShortResponseRejected ==
    (Validated /\ Len(uart_received_packet_return) < 11) => ret = FAILURE

\* C13: a response whose checksum byte differs from the XOR of its bytes from
\* MID through the last data byte is never accepted.
C13_BadChecksumRejected ==
    ( /\ Validated
      /\ MarkersIntact(uart_received_packet_return)
      /\ Len(uart_received_packet_return) >= 8
      /\ SumOf(uart_received_packet_return) # XorOfBody(uart_received_packet_return) ) =>
        ret = FAILURE

\* C14: the accessors with a fixed response length succeed only on their own
\* LEN byte, 0x6c for get_vendor_name and 0x66 for the five flash-information
\* accessors; any other LEN makes the call fail even when MID and RES are valid.
C14_FixedLenOnly ==
    ( /\ pc = "returned"
      /\ ret = SUCCESS ) =>
        /\ (fn \in VendorNameAccessors =>
                Buf(uart_received_packet_return, 3) = 108)
        /\ (fn \in FlashInformationAccessors =>
                Buf(uart_received_packet_return, 3) = 102)

\* C14 witness: a flash-information read with the right MID, RES 0 and the
\* LEN of the vendor name has failed
C14_Witness ==
    /\ Validated
    /\ fn = "get_active_partition_number_of_nistica_wss_module"
    /\ Buf(uart_received_packet_return, 2) = packet_to_transmit[3]
    /\ Buf(uart_received_packet_return, 4) = 0
    /\ Buf(uart_received_packet_return, 3) = 108
    /\ ret = FAILURE

\* thread t is between its transmit and its return
InCall(t) == th[t].pc \in { "transmitted", "received" }

\* C15: two accessor calls issued concurrently on the same UART port are
\* mutually exclusive: the transmit and receive of one finish before the
\* transmit of the other starts, so neither call consumes the other's response.
C15_SamePortExclusive ==
    \A t \in Threads : \A u \in Threads \ { t } :
        /\ (InCall(t) /\ InCall(u)) =>
               th[t].uart_port_number # th[u].uart_port_number
        /\ th[t].got.for \in { 0, t }

\* C16: when calls run concurrently on different ports, under every
\* interleaving the return value and the output of each call are those of the
\* call run alone on the responses its own port delivered: no buffer or other
\* state is shared between the calls.
C16_PortsIndependent ==
    \A t \in Threads :
        (th[t].pc = "returned" /\ th[t].receive_packet = SUCCESS /\ th[t].got.for # 0) =>
            LET valid == Validate(th[t].fn, th[t].packet_to_transmit, th[t].got.bytes)
            IN  /\ th[t].ret = ReturnValue(valid)
                /\ th[t].out = IF valid
                                THEN Store(th[t].fn, NoArgs, th[t].got.bytes, "wrap", << >>)
                                ELSE << >>

\* C16 witness: a call was accepted on port 1 while the other thread, on
\* port 2, holds a rejected response between its receive and its validation
C16_Witness ==
    /\ th[1].pc = "returned" /\ th[1].uart_port_number = 1 /\ th[1].ret = SUCCESS
    /\ th[1].out = << 300 >>
    /\ th[2].pc = "received" /\ th[2].uart_port_number = 2
    /\ Buf(rxbuf[RxBufferOf(2)], 4) = 1

\* the bytes the receive of the current call delivered
Delivered ==
    SubSeq(uart_received_packet_return, 1, length_of_received_packet_return)

\* what a call returns and stores, from its arguments and transport outcomes alone
AcceptedAlone ==
    /\ SUCCESS = transmit_packet
    /\ SUCCESS = receive_packet
    /\ Validate(fn, Packet(fn, args), Delivered)

\* the frame, return value and output depend on nothing but the call itself
ResultFromCallAlone ==
    /\ FrameBuilt => packet_to_transmit = Packet(fn, args)
    /\ pc = "returned" =>
          /\ ret = ReturnValue(AcceptedAlone)
          /\ \E conv \in ConversionChoices(fn, args, Delivered) :
                out = IF AcceptedAlone THEN Store(fn, args, Delivered, conv, << >>)
                                       ELSE << >>

\* C17: no state is carried from one call to the next: whatever calls came
\* before, a call with the same arguments and the same transport outcomes
\* transmits the same frame (the same bytes, the same number of them) and
\* gives the same return value and output.
C17_NoStateCarried ==
    /\ ResultFromCallAlone
    /\ FrameBuilt => length_of_packet_to_transmit = Strlen(Packet(fn, args), 0)

\* a scaled read went through validation and extraction
ScaledReadAccepted ==
    /\ Validated
    /\ fn \in ScaledAccessors
    /\ ret = SUCCESS
    /\ Len(Delivered) >= 7

\* C18: for the frequency-bound and minimum-channel-bandwidth reads, a valid
\* response with data bytes b5, b6 stores raw x 3.125 where raw is the
\* little-endian composition b5 + 256 * b6, for every pair of data bytes
\* (0x60 0x00 gives raw 96 and the value 300).
C18_LittleEndianScaled ==
    ScaledReadAccepted =>
        LET raw == Delivered[6] + 256 * Delivered[7]
        IN  out = << (raw * 25) \div 8 >>

\* v / 3.125 rounded to the nearest integer
DividedBy3125Rounded(v) == (v * 16 + 25) \div 50

\* C19: for every raw value a frequency read decodes, the value stored in the
\* unsigned short output, divided by 3.125 and rounded to the nearest integer,
\* is the raw value again (as a 16-bit pattern or as the int the code holds).
C19_ScalingLosesNothing ==
    ScaledReadAccepted =>
        DividedBy3125Rounded(out[1]) \in
            { OrBothBytes(args, Delivered), OrBothBytes(args, Delivered) % 65536 }

\* the 2-byte center-frequency field of the set_waveplan frame (object 0xA0)
CenterFrequencyField == packet_to_transmit[14] + 256 * packet_to_transmit[15]

\* the field times 3.125 GHz is within 3.125 GHz of the requested frequency
\* (both sides in eighths of a GHz)
FieldWithinOneGridUnit ==
    /\ CenterFrequencyField * 25 - args.center_frequency_in_Thz * 8 <= 25
    /\ args.center_frequency_in_Thz * 8 - CenterFrequencyField * 25 <= 25

\* C20: for every center frequency passed to set_waveplan, the
\* 2-byte center-frequency field times 3.125 GHz equals the requested
\* frequency to within one grid unit.
C20_EveryFrequencyWithinGrid ==
    (FrameBuilt /\ fn = "set_waveplan_of_nistica_wss_module") => FieldWithinOneGridUnit


\* 0: no boot, 1: cold, 2: warm, 4: watchdog reset, 8: hot
BootModes == { 0, 1, 2, 4, 8 }

\* C21: get_boot_mode reports success only with a boot-mode value from the
\* closed set {0, 1, 2, 4, 8}; a response carrying any other raw value is not
\* returned as a boot mode.
C21_BootModeClosedSet ==
    ( /\ Validated
      /\ fn = "get_boot_mode_of_nistica_wss_module"
      /\ ret = SUCCESS ) => out[1] \in BootModes


\* get_vendor_name went through validation and extraction
VendorNameAccepted ==
    /\ Validated
    /\ fn = "get_vendor_name_of_nistica_wss_module"
    /\ ret = SUCCESS

\* C22 as stated: on a valid response get_vendor_name returns exactly the 6
\* bytes of the response at offsets 5..10, no more and no fewer.
C22_VendorNameSixBytes ==
    VendorNameAccepted =>
        /\ Len(out) = 6
        /\ \A i \in 1 .. 6 : out[i] = Buf(uart_received_packet_return, 4 + i)

\* C22 amended: on a valid response get_vendor_name returns exactly the 7
\* bytes of the response at offsets 5..11, no more and no fewer.
C22_VendorNameSevenBytes ==
    VendorNameAccepted =>
        /\ Len(out) = 7
        /\ \A i \in 1 .. 7 : out[i] = Buf(uart_received_packet_return, 4 + i)

\* C22 witness: the name "Nistica" is returned whole
C22_Witness ==
    /\ VendorNameAccepted
    /\ out = << 78, 105, 115, 116, 105, 99, 97 >>


\* the fields a frame was built from: the elements of its initialiser
\* Tx packet to WSS module : 0xdd 0x01 MID LEN CMD OBJ INS PAR SUM 0xdd 0x02
FieldsOf(p) ==
    [ mid  |-> p[3],
      cmd  |-> p[5],
      obj  |-> p[6],
      ins  |-> p[7],
      rest |-> SubSeq(p, 8, Len(p) - 3) ]

\* the answer of a decoder to a frame it does not take
Rejected == [ mid |-> -1, cmd |-> -1, obj |-> -1, ins |-> -1, rest |-> << >> ]

\* the length byte fits the size of the frame, counting the bytes from the
\* command code through the last data byte or through the checksum
LenFitsFrame(p) == p[4] \in { Len(p) - 7, Len(p) - 6 }

\* reading a frame back: markers, length byte and checksum are checked, then
\* the fields are taken from their places
Decode(p) ==
    IF MarkersIntact(p) /\ LenFitsFrame(p) /\ SumOf(p) = XorOfBody(p)
    THEN [ mid  |-> p[3],
           cmd  |-> p[5],
           obj  |-> p[6],
           ins  |-> p[7],
           rest |-> SubSeq(p, 8, Len(p) - 3) ]
    ELSE Rejected

\* C23: for every command frame the library builds, decoding that frame
\* (markers, MID, LEN consistent with the size of the body, body fields,
\* checksum) gives back the message id, command code, object, instance,
\* parameter and data it was built from.
C23_DecodeGivesFieldsBack ==
    FrameBuilt => Decode(packet_to_transmit) = FieldsOf(packet_to_transmit)


\* C24: no accessor writes to the standard output or any log on any path;
\* every failure is reported to the caller only through the returned error.
C24_NothingPrinted == stdout = << >>


\* C25: in every call the transmit comes before the receive, and the receive
\* is attempted only if the transmit returned SUCCESS: when the transmit
\* fails the call returns failure without reading from the port.
C25_ReceiveOnlyAfterTransmit ==
    /\ nrx > 0 => (ntx = 1 /\ transmit_packet = SUCCESS)
    /\ (FrameBuilt /\ transmit_packet # SUCCESS) =>
          /\ pc = "returned"
          /\ ret = FAILURE
          /\ nrx = 0
          /\ length_of_received_packet_return = 0

\* C25 witness: set_waveplan has returned failure after a failed transmit,
\* without a receive
C25_Witness ==
    /\ pc = "returned"
    /\ fn = "set_waveplan_of_nistica_wss_module"
    /\ transmit_packet = FAILURE
    /\ ntx = 1
    /\ nrx = 0
    /\ ret = FAILURE


\* C26: whenever an accessor returns failure (transmit error, receive error,
\* MID mismatch, non-zero RES or length mismatch) the caller's output argument
\* is left as it was before the call (<< >>: nothing stored).
C26_OutputUntouchedOnFailure ==
    (pc = "returned" /\ ret = FAILURE) => out = << >>

\* C26 witness: get_vendor_name failed on the length byte alone, on a response
\* that carries a name
C26_Witness ==
    /\ Validated
    /\ fn = "get_vendor_name_of_nistica_wss_module"
    /\ Buf(uart_received_packet_return, 2) = packet_to_transmit[3]
    /\ Buf(uart_received_packet_return, 4) = 0
    /\ Buf(uart_received_packet_return, 3) = 102
    /\ Buf(uart_received_packet_return, 5) = 78
    /\ ret = FAILURE
    /\ out = << >>


\* the bytes the accessor puts on the wire
OnTheWire == Transmitted(packet_to_transmit, length_of_packet_to_transmit)

\* C27: for every accessor the byte count handed to
\* transmit_packet_via_uart_port is the full length of the frame it built, so
\* the bytes put on the wire end with the checksum and the end marker DD 02.
C27_WholeFrameTransmitted ==
    FrameBuilt =>
        /\ length_of_packet_to_transmit = Len(packet_to_transmit)
        /\ OnTheWire = packet_to_transmit


\* char uart_received_packet_return[N]: the size each accessor declares
BufferSize(f) ==
    IF f \in VendorNameAccessors \cup FlashInformationAccessors THEN 110
    ELSE IF f \in { "get_module_uptime_low_word_of_nistica_wss_module",
                    "get_module_uptime_high_word_of_nistica_wss_module" } THEN 75
    ELSE IF f \in ByValueAccessors THEN 15
    ELSE 255

\* the size of the frame a length byte announces: the bytes from the command
\* (or result) byte through the checksum, and the 6 bytes around them
FrameSizeFor(len) == len + 6

\* C28: for every accessor, a response that passes its validation fits in the
\* receive buffer it declares, the size of the response being its length byte
\* plus 6 as in the command frames; in particular a response with length byte
\* 0x6c fits in the 110 bytes of get_vendor_name.
C28_AcceptedResponseFits ==
    (Validated /\ ret = SUCCESS) =>
        FrameSizeFor(Buf(uart_received_packet_return, 3)) <= BufferSize(fn)


\* the highest offset of uart_received_packet_return an accessor reads on its
\* validated path: RES at 4, then the bytes it extracts
HighestOffsetRead(f) ==
    CASE f = "get_vendor_name_of_nistica_wss_module"                  -> 11
      [] f = "get_active_partition_number_of_nistica_wss_module"      -> 5
      [] f = "get_booted_partition_number_of_nistica_wss_module"      -> 7
      [] f = "get_partition_1_firmware_version_of_nistica_wss_module" -> 16
      [] f = "get_partition_2_firmware_version_of_nistica_wss_module" -> 25
      [] f = "get_bootloader_version_of_nistica_wss_module"           -> 31
      [] f = "get_module_uptime_low_word_of_nistica_wss_module"       -> 5
      [] f = "get_module_uptime_high_word_of_nistica_wss_module"      -> 38
      [] f = "get_module_supports_array_commands_of_nistica_wss_module" -> 5
      [] f \in OrAccessors                                            -> 6
      [] OTHER                                                        -> 4

\* C29: every response byte an accessor validates or extracts lies at an
\* index below the received length the receive reported
\* (get_module_uptime_high_word reads offset 38 only from a response of at
\* least 39 bytes); no byte of the zero-initialised buffer is taken for RES
\* or data.
C29_ReadsBelowReceivedLength ==
    /\ Validated => 4 < length_of_received_packet_return
    /\ (Validated /\ ret = SUCCESS) =>
          HighestOffsetRead(fn) < length_of_received_packet_return


\* the number of bytes of frame p between its command-code byte (offset 4)
\* and its checksum byte
BetweenCmdAndSum(p) == (Len(p) - 2) - 5 - 1

\* C30 as stated: every single-read command frame carries exactly 4 bytes
\* between the command-code byte and the checksum byte: object id, instance
\* id, parameter high byte, parameter low byte.
C30_FourBytesAfterCmd ==
    (FrameBuilt /\ fn \in GetAccessors) =>
        /\ packet_to_transmit[5] = READ_CMD
        /\ BetweenCmdAndSum(packet_to_transmit) = 4

\* C30 amended: every single-read command frame carries exactly 3 bytes
\* between the command-code byte and the checksum byte: object id, instance
\* id and one parameter byte.
C30_ThreeBytesAfterCmd ==
    (FrameBuilt /\ fn \in GetAccessors) =>
        /\ packet_to_transmit[5] = READ_CMD
        /\ BetweenCmdAndSum(packet_to_transmit) = 3
        /\ Len(packet_to_transmit) = 11

\* C30 witness: the frame of get_minimum_frequency_bound, OBJ 0x80, INS 0x04,
\* PAR 0x00 and then the checksum
C30_Witness ==
    /\ FrameBuilt
    /\ fn = "get_minimum_frequency_bound_of_nistica_wss_module"
    /\ SubSeq(packet_to_transmit, 5, 9) = << 2, 128, 4, 0, 154 >>


\* the 2-byte bandwidth field of the set_waveplan frame (object 0xA1)
BandwidthField == packet_to_transmit[19] + 256 * packet_to_transmit[20]

\* C31: in the set_waveplan frame the 2-byte bandwidth field (object 0xA1)
\* holds bandwidth_in_Ghz / 3.125 (16 for 50 GHz), for every bandwidth that is
\* a multiple of 3.125 GHz.
C31_BandwidthInGridUnits ==
    ( /\ FrameBuilt
      /\ fn = "set_waveplan_of_nistica_wss_module"
      /\ args.bandwidth_in_Ghz % 25 = 0 ) =>
        BandwidthField = args.bandwidth_in_Ghz \div 25


\* the code of the boot mode each set_*_boot_mode function stands for
\*   1: Cold boot, 2: Warm boot, 4: Watchdog reset, 8: Hot boot
BootModeCode(f) ==
    CASE f = "set_cold_boot_mode_for_nistica_wss_module"           -> 1
      [] f = "set_warm_boot_mode_for_nistica_wss_module"           -> 2
      [] f = "set_watchdog_reset_boot_mode_for_nistica_wss_module" -> 4
      [] OTHER                                                     -> 8

\* the 2-byte field at offsets i, i + 1 of frame p, read low byte first
LowByteFirst(p, i) == p[i + 1] + 256 * p[i + 2]

\* C32: every 2-byte data field of a write frame is encoded low byte first:
\* in set_waveplan the channel count, the center frequency and the bandwidth,
\* in the set_*_boot_mode frames the boot-mode code; all use one byte order.
C32_LowByteFirstEverywhere ==
    /\ (FrameBuilt /\ fn = "set_waveplan_of_nistica_wss_module") =>
          /\ LowByteFirst(packet_to_transmit, 8) = args.number_of_channels
          /\ LowByteFirst(packet_to_transmit, 13) =
                center_frequency_in_3125_multiple(args) % 65536
          /\ LowByteFirst(packet_to_transmit, 18) =
                bandwidth_in_3125_multiple(args) % 65536
    /\ (FrameBuilt /\ fn \in BootModeSetters) =>
          LowByteFirst(packet_to_transmit, 8) = BootModeCode(fn)


\* the frame of a set_*_boot_mode function names the boot-mode register
\* (object 0x91, instance 0x01) and the code of its mode
BootModeFrameNamesCode ==
    (FrameBuilt /\ fn \in BootModeSetters) =>
        /\ packet_to_transmit[6] = 145
        /\ packet_to_transmit[7] = 1
        /\ 256 * packet_to_transmit[9] + packet_to_transmit[10] = BootModeCode(fn)

\* C33: each set_*_boot_mode function writes to the boot-mode register (object
\* 0x91, instance 0x01) the code get_boot_mode documents for that mode (cold 1,
\* warm 2, watchdog 4, hot 8), so that a module that stores the written value
\* gives that mode back to a later get_boot_mode: the register and the code
\* are in the bytes the module gets.
C33_BootModeCodeWritten ==
    /\ BootModeFrameNamesCode
    /\ (FrameBuilt /\ fn \in BootModeSetters /\ transmit_packet = SUCCESS) =>
          /\ Len(OnTheWire) >= 10
          /\ OnTheWire[6] = 145
          /\ OnTheWire[7] = 1
          /\ 256 * OnTheWire[9] + OnTheWire[10] = BootModeCode(fn)


\* the object bytes of the five groups of a multi-object write frame, each
\* group being OBJ INS PAR and two data bytes after the CMD byte; the groups
\* that p is too short to hold are left out
GroupObjects(p) ==
    LET at == << 6, 11, 16, 21, 26 >>
        held == { g \in 1..5 : at[g] + 4 <= Len(p) }
    IN  [ g \in 1..Cardinality(held) |-> p[at[g]] ]

\* the frame set_waveplan builds has the five groups with 0xA4 last
WaveplanFrameCommitsLast ==
    (FrameBuilt /\ fn = "set_waveplan_of_nistica_wss_module") =>
        GroupObjects(packet_to_transmit) = << 163, 160, 161, 162, 164 >>

\* C34: set_waveplan sends all the settings in one frame, and in that frame
\* the commit group (object 0xA4) comes last, after the channel-count (0xA3),
\* center-frequency (0xA0), bandwidth (0xA1) and options (0xA2) groups.
C34_CommitGroupSentLast ==
    /\ WaveplanFrameCommitsLast
    /\ ( /\ FrameBuilt /\ fn = "set_waveplan_of_nistica_wss_module"
         /\ transmit_packet = SUCCESS ) =>
            GroupObjects(OnTheWire) = << 163, 160, 161, 162, 164 >>


\* the bytes of a frame that its LEN byte leaves uncounted
OutsideLEN(p) == Len(p) - p[4]

\* C35: the size of a frame less its LEN byte is one constant, 6 (an 11-byte
\* read frame has LEN 0x05), in the read, write, multi-object-write and
\* array-write frames alike.
C35_SizeLessLenIsSix ==
    FrameBuilt => OutsideLEN(packet_to_transmit) = 6


\* the variable the extraction step of an accessor names for the result, where
\* it names one other than the parameter of the accessor
StoredIn(f) ==
    CASE f = "get_maximum_waveplan_id_value_of_nistica_wss_module"                 -> "maximum_ocm_id_value"
      [] f = "get_module_supports_multi_commands_of_nistica_wss_module"            -> "maximum_ocm_id_value"
      [] f = "get_module_supports_table_and_row_commands_of_nistica_wss_module"    -> "maximum_ocm_id_value"
      [] f = "get_module_supports_long_cmd_format_of_nistica_wss_module"           -> "maximum_ocm_id_value"
      [] f = "get_module_supports_broadcast_of_nistica_wss_module"                 -> "maximum_ocm_id_value"
      [] OTHER -> "parameter"

\* C36: on success every get_* accessor gives the decoded value to its caller
\* through its own output parameter, the pointer argument of its prototype, and
\* stores it in no other variable.
C36_DeliveredThroughOwnParameter ==
    /\ (pc = "returned" /\ ret = SUCCESS /\ fn \in GetAccessors) =>
          \E conv \in ConversionChoices(fn, args, Delivered) :
              /\ out = Extract(fn, args, Delivered, conv)
              /\ out # << >>
              /\ StoredIn(fn) = "parameter"


\* C37: for every start_of_channel and end_of_channel an unsigned short can
\* hold, the frame of set_channel_port carries those channel numbers and the
\* length end_of_channel + 5 as they are, none reduced modulo 256.
C37_ChannelNumbersCarriedWhole ==
    (FrameBuilt /\ fn = "set_channel_port_of_nistica_wss_module") =>
        /\ packet_to_transmit[7] = args.start_of_channel
        /\ packet_to_transmit[9] = args.end_of_channel
        /\ packet_to_transmit[4] = channel_port_length(args)


\* the accessors whose comment states the MID, OBJ, INS and PAR of the Tx packet
DocumentedAccessors ==
    { "get_minimum_frequency_bound_of_nistica_wss_module",
      "get_maximum_frequency_bound_of_nistica_wss_module",
      "get_minimum_channel_bandwidth_of_nistica_wss_module",
      "get_maximum_wss_id_value_of_nistica_wss_module",
      "get_maximum_ocm_id_value_of_nistica_wss_module",
      "get_maximum_waveplan_id_value_of_nistica_wss_module",
      "get_module_supports_multi_commands_of_nistica_wss_module",
      "get_module_supports_table_and_row_commands_of_nistica_wss_module",
      "get_module_supports_long_cmd_format_of_nistica_wss_module",
      "get_module_supports_broadcast_of_nistica_wss_module",
      "get_power_on_self_test_results_of_nistica_wss_module",
      "get_module_status_of_nistica_wss_module",
      "get_boot_mode_of_nistica_wss_module",
      "set_cold_boot_mode_for_nistica_wss_module",
      "set_warm_boot_mode_for_nistica_wss_module",
      "set_watchdog_reset_boot_mode_for_nistica_wss_module",
      "set_hot_boot_mode_for_nistica_wss_module" }

\* "MID=0x19; OBJ=0x80; INS=0x04; PAR=0x00": the four values the comment of
\* the accessor states, in that order
Documented(f) ==
    CASE f = "get_minimum_frequency_bound_of_nistica_wss_module"                 -> << \H19, \H80, \H04, \H00 >>
      [] f = "get_maximum_frequency_bound_of_nistica_wss_module"                 -> << \H19, \H80, \H05, \H00 >>
      [] f = "get_minimum_channel_bandwidth_of_nistica_wss_module"               -> << \H19, \H80, \H04, \H00 >>
      [] f = "get_maximum_wss_id_value_of_nistica_wss_module"                    -> << \H19, \H80, \H0f, \H00 >>
      [] f = "get_maximum_ocm_id_value_of_nistica_wss_module"                    -> << \H19, \H80, \H10, \H00 >>
      [] f = "get_maximum_waveplan_id_value_of_nistica_wss_module"               -> << \H19, \H80, \H12, \H00 >>
      [] f = "get_module_supports_multi_commands_of_nistica_wss_module"          -> << \H10, \H80, \H02, \H00 >>
      [] f = "get_module_supports_table_and_row_commands_of_nistica_wss_module"  -> << \H10, \H80, \H0e, \H00 >>
      [] f = "get_module_supports_long_cmd_format_of_nistica_wss_module"         -> << \H19, \H80, \H11, \H00 >>
      [] f = "get_module_supports_broadcast_of_nistica_wss_module"               -> << \H19, \H80, \H0a, \H00 >>
      [] f = "get_power_on_self_test_results_of_nistica_wss_module"              -> << \H01, \H03, \H01, \H00 >>
      [] f = "get_module_status_of_nistica_wss_module"                           -> << \H02, \H04, \H01, \H00 >>
      [] f = "get_boot_mode_of_nistica_wss_module"                               -> << \H03, \H91, \H01, \H00 >>
      [] f = "set_cold_boot_mode_for_nistica_wss_module"                         -> << \H03, \H91, \H01, \H00 >>
      [] f = "set_warm_boot_mode_for_nistica_wss_module"                         -> << \H03, \H91, \H01, \H00 >>
      [] f = "set_watchdog_reset_boot_mode_for_nistica_wss_module"               -> << \H03, \H91, \H01, \H00 >>
      [] OTHER -> << \H03, \H91, \H01, \H00 >>

\* the bytes of a frame at offsets 2, 5, 6 and 7
MidObjInsPar(p) == << p[3], p[6], p[7], p[8] >>

\* C38: for every accessor whose comment states the MID, OBJ, INS and PAR of
\* its Tx packet, the frame it transmits carries exactly those four values at
\* offsets 2, 5, 6 and 7.
C38_FrameCarriesDocumentedFields ==
    (FrameBuilt /\ fn \in DocumentedAccessors) =>
        MidObjInsPar(packet_to_transmit) = Documented(fn)

====
